---- MODULE Spec2Model ----
(***************************************************************************)
(* Model of the git CORS proxy: the value-mode entry point                 *)
(* (scripts/gitproxy/lambda_function.py, lambda_handler) and the streaming *)
(* entry point (scripts/gitproxy/gitproxy.py, GitProxyHandler).            *)
(*                                                                         *)
(* Python str values are TLA+ strings, bytes values are sequences of       *)
(* integers 0..255, dicts are sequences of <<key, value>> pairs in         *)
(* insertion order.                                                        *)
(***************************************************************************)
EXTENDS Integers, Sequences, FiniteSets, TLC

VARIABLES mode, event, handler, remote, pc, calls, result, error, headers_buffer, wfile

vars == <<mode, event, handler, remote, pc, calls, result, error, headers_buffer, wfile>>

(***************************************************************************)
(* Bounds of the checked instance.                                         *)
(***************************************************************************)
MaxPathLen == 3
MaxHeaders == 2
MaxBody == 2

NONE == "<None>"

(***************************************************************************)
(* str helpers.                                                            *)
(***************************************************************************)
Char(s, i) == SubSeq(s, i, i)

StartsWith(s, p) == Len(s) >= Len(p) /\ SubSeq(s, 1, Len(p)) = p

Contains(s, sub) ==
    \E i \in 1..(Len(s) - Len(sub) + 1) : SubSeq(s, i, i + Len(sub) - 1) = sub

RECURSIVE LStripSlash(_)
LStripSlash(s) ==
    IF Len(s) > 0 /\ Char(s, 1) = "/" THEN LStripSlash(Tail(s)) ELSE s

UpperLetters == "ABCDEFGHIJKLMNOPQRSTUVWXYZ"
LowerLetters == "abcdefghijklmnopqrstuvwxyz"

IndexIn(alphabet, c) ==
    IF \E i \in 1..Len(alphabet) : Char(alphabet, i) = c
    THEN CHOOSE i \in 1..Len(alphabet) : Char(alphabet, i) = c
    ELSE 0

\* Lookup tables, computed once.
LowerOf == [c \in {Char(UpperLetters, i) : i \in 1..26} |-> Char(LowerLetters, IndexIn(UpperLetters, c))]
UpperOf == [c \in {Char(LowerLetters, i) : i \in 1..26} |-> Char(UpperLetters, IndexIn(LowerLetters, c))]

LowerChar(c) == IF c \in DOMAIN LowerOf THEN LowerOf[c] ELSE c

UpperChar(c) == IF c \in DOMAIN UpperOf THEN UpperOf[c] ELSE c

RECURSIVE Lower(_)
Lower(s) == IF Len(s) = 0 THEN "" ELSE LowerChar(Char(s, 1)) \o Lower(Tail(s))

RECURSIVE Upper(_)
Upper(s) == IF Len(s) = 0 THEN "" ELSE UpperChar(Char(s, 1)) \o Upper(Tail(s))

\* Index of the first '?' in s, or 0.
FindQ(s) ==
    IF \E i \in 1..Len(s) : Char(s, i) = "?"
    THEN CHOOSE i \in 1..Len(s) : Char(s, i) = "?" /\ \A j \in 1..(i - 1) : Char(s, j) # "?"
    ELSE 0

\* ASCII 32..95 and 97..126, used by str.encode / bytes.decode.
PrintableLow == " !\"#$%&'()*+,-./0123456789:;<=>?@ABCDEFGHIJKLMNOPQRSTUVWXYZ[\\]^_"
PrintableHigh == "abcdefghijklmnopqrstuvwxyz{|}~"

OrdOf ==
    [c \in {Char(PrintableLow, i) : i \in 1..Len(PrintableLow)}
            \cup {Char(PrintableHigh, i) : i \in 1..Len(PrintableHigh)} |->
        IF IndexIn(PrintableLow, c) > 0 THEN IndexIn(PrintableLow, c) + 31
        ELSE IndexIn(PrintableHigh, c) + 96]

Ord(c) == OrdOf[c]

Chr(n) == IF n < 96 THEN Char(PrintableLow, n - 31) ELSE Char(PrintableHigh, n - 96)

RECURSIVE Utf8Encode(_)
Utf8Encode(s) == IF Len(s) = 0 THEN <<>> ELSE <<Ord(Char(s, 1))>> \o Utf8Encode(Tail(s))

\* U+FFFD as produced by errors=replace.
ReplacementChar == "\\uFFFD"

RECURSIVE Utf8DecodeReplace(_)
Utf8DecodeReplace(b) ==
    IF Len(b) = 0 THEN ""
    ELSE (IF Head(b) < 128 THEN Chr(Head(b)) ELSE ReplacementChar) \o Utf8DecodeReplace(Tail(b))

Digits == "0123456789"

RECURSIVE IntToStr(_)
IntToStr(n) ==
    IF n < 10 THEN Char(Digits, n + 1)
    ELSE IntToStr(n \div 10) \o Char(Digits, (n % 10) + 1)

IsDecimal(s) == Len(s) > 0 /\ \A i \in 1..Len(s) : IndexIn(Digits, Char(s, i)) > 0

RECURSIVE StrToInt(_)
StrToInt(s) ==
    IF Len(s) = 0 THEN 0
    ELSE 10 * StrToInt(SubSeq(s, 1, Len(s) - 1)) + (IndexIn(Digits, Char(s, Len(s))) - 1)

(***************************************************************************)
(* dict helpers: a dict is a sequence of <<key, value>> pairs.             *)
(***************************************************************************)
HasKey(d, k) == \E i \in 1..Len(d) : d[i][1] = k

DictGet(d, k, default) ==
    IF HasKey(d, k) THEN d[CHOOSE i \in 1..Len(d) : d[i][1] = k][2] ELSE default

\* d[k] = v : replaces the value of an existing key, appends a new key.
DictSet(d, k, v) ==
    IF HasKey(d, k) THEN [i \in 1..Len(d) |-> IF d[i][1] = k THEN <<k, v>> ELSE d[i]]
    ELSE Append(d, <<k, v>>)

Keys(d) == {d[i][1] : i \in 1..Len(d)}

(***************************************************************************)
(* base64.b64encode / base64.b64decode.                                    *)
(***************************************************************************)
B64Alphabet == "ABCDEFGHIJKLMNOPQRSTUVWXYZabcdefghijklmnopqrstuvwxyz0123456789+/"

B64Char(n) == Char(B64Alphabet, n + 1)
B64ValOf == [c \in {Char(B64Alphabet, i) : i \in 1..64} \cup {"="} |-> IndexIn(B64Alphabet, c) - 1]
B64Val(c) == B64ValOf[c]

RECURSIVE b64encode(_)
b64encode(b) ==
    IF Len(b) = 0 THEN ""
    ELSE IF Len(b) = 1 THEN
        B64Char(b[1] \div 4) \o B64Char((b[1] % 4) * 16) \o "=="
    ELSE IF Len(b) = 2 THEN
        B64Char(b[1] \div 4) \o B64Char((b[1] % 4) * 16 + b[2] \div 16)
            \o B64Char((b[2] % 16) * 4) \o "="
    ELSE
        B64Char(b[1] \div 4) \o B64Char((b[1] % 4) * 16 + b[2] \div 16)
            \o B64Char((b[2] % 16) * 4 + b[3] \div 64) \o B64Char(b[3] % 64)
            \o b64encode(SubSeq(b, 4, Len(b)))

\* binascii.Error (incorrect padding) when the length is not a multiple of 4.
b64decode_ok(s) == Len(s) % 4 = 0

RECURSIVE b64decode(_)
b64decode(s) ==
    IF Len(s) < 4 THEN <<>>
    ELSE LET v1 == B64Val(Char(s, 1))
             v2 == B64Val(Char(s, 2))
             v3 == B64Val(Char(s, 3))
             v4 == B64Val(Char(s, 4))
         IN IF Char(s, 3) = "=" THEN <<v1 * 4 + v2 \div 16>>
            ELSE IF Char(s, 4) = "=" THEN <<v1 * 4 + v2 \div 16, (v2 % 16) * 16 + v3 \div 4>>
            ELSE <<v1 * 4 + v2 \div 16, (v2 % 16) * 16 + v3 \div 4, (v3 % 4) * 64 + v4>>
                    \o b64decode(SubSeq(s, 5, Len(s)))

(***************************************************************************)
(* json.dumps of a dict of str to str (values without quotes or escapes).  *)
(***************************************************************************)
RECURSIVE JsonItems(_)
JsonItems(d) ==
    IF Len(d) = 0 THEN ""
    ELSE "\"" \o d[1][1] \o "\": \"" \o d[1][2] \o "\""
            \o (IF Len(d) > 1 THEN ", " ELSE "") \o JsonItems(Tail(d))

json_dumps(d) == "{" \o JsonItems(d) \o "}"

\* The text is a JSON object with member `key`.
JsonObjectHasKey(text, key) ==
    LET k == "\"" \o key \o "\": \""
    IN /\ Len(text) >= 2
       /\ Char(text, 1) = "{"
       /\ Char(text, Len(text)) = "}"
       /\ \E i \in 2..Len(text) :
            /\ i + Len(k) - 1 <= Len(text)
            /\ SubSeq(text, i, i + Len(k) - 1) = k
            /\ (i = 2 \/ (i > 3 /\ SubSeq(text, i - 3, i - 1) = "\", "))

(***************************************************************************)
(* urllib.parse.urlencode of a dict whose keys and values consist of       *)
(* unreserved characters.                                                  *)
(***************************************************************************)
RECURSIVE urlencode(_)
urlencode(q) ==
    IF Len(q) = 0 THEN ""
    ELSE q[1][1] \o "=" \o q[1][2] \o (IF Len(q) > 1 THEN "&" ELSE "") \o urlencode(Tail(q))

(***************************************************************************)
(* CorsPolicy header sets.                                                 *)
(***************************************************************************)
lambda_cors_headers ==
    << <<"Access-Control-Allow-Origin", "*">>,
       <<"Access-Control-Allow-Methods", "GET, POST, PUT, DELETE, OPTIONS">>,
       <<"Access-Control-Allow-Headers", "*">> >>

lambda_preflight_headers ==
    << <<"Access-Control-Allow-Origin", "*">>,
       <<"Access-Control-Allow-Methods", "GET, POST, PUT, DELETE, OPTIONS">>,
       <<"Access-Control-Allow-Headers", "Content-Type, Authorization, X-Requested-With, Accept, Origin">>,
       <<"Access-Control-Max-Age", "86400">> >>

_set_cors_headers ==
    << <<"Access-Control-Allow-Origin", "*">>,
       <<"Access-Control-Allow-Methods", "GET, POST, OPTIONS">>,
       <<"Access-Control-Allow-Headers", "*">> >>

(***************************************************************************)
(* PathResolver.                                                           *)
(***************************************************************************)
lambda_prefix == "/api/git-proxy"
server_prefix == "/api/git-proxy/"

lambda_target_path(path) ==
    LStripSlash(IF StartsWith(path, lambda_prefix)
                THEN SubSeq(path, Len(lambda_prefix) + 1, Len(path))
                ELSE path)

lambda_target_url(path, hasQuery, query_params) ==
    "https://" \o lambda_target_path(path)
        \o (IF hasQuery /\ Len(query_params) > 0 THEN "?" \o urlencode(query_params) ELSE "")

path_part(path) == IF FindQ(path) = 0 THEN path ELSE SubSeq(path, 1, FindQ(path) - 1)

\* self.path.split('?', 1)[1] if '?' in self.path else None
query_string(path) == IF FindQ(path) = 0 THEN NONE ELSE SubSeq(path, FindQ(path) + 1, Len(path))

server_target_path(path) ==
    IF StartsWith(path_part(path), server_prefix)
    THEN SubSeq(path_part(path), Len(server_prefix) + 1, Len(path_part(path)))
    ELSE LStripSlash(path_part(path))

server_target_url(path) ==
    "https://" \o server_target_path(path)
        \o (IF query_string(path) # NONE /\ Len(query_string(path)) > 0
            THEN "?" \o query_string(path) ELSE "")

(***************************************************************************)
(* HeaderFilter.                                                           *)
(***************************************************************************)
lambda_skip_headers == {"host", "connection", "content-length"}
server_skip_headers == {"host", "connection"}

\* Variant: the exclusion test without k.lower().
RECURSIVE proxied_headers_case_sensitive(_)
proxied_headers_case_sensitive(headers) ==
    IF Len(headers) = 0 THEN <<>>
    ELSE (IF headers[1][1] \notin lambda_skip_headers THEN <<headers[1]>> ELSE <<>>)
            \o proxied_headers_case_sensitive(Tail(headers))

\* {k: v for k, v in headers.items() if k.lower() not in skip_headers}
RECURSIVE proxied_headers(_)
proxied_headers(headers) ==
    IF Len(headers) = 0 THEN <<>>
    ELSE (IF Lower(headers[1][1]) \notin lambda_skip_headers THEN <<headers[1]>> ELSE <<>>)
            \o proxied_headers(Tail(headers))

\* for header, value in self.headers.items(): if ...: headers[header] = value
RECURSIVE server_copy_headers(_, _)
server_copy_headers(items, acc) ==
    IF Len(items) = 0 THEN acc
    ELSE server_copy_headers(Tail(items),
            IF Lower(items[1][1]) \notin server_skip_headers
            THEN DictSet(acc, items[1][1], items[1][2]) ELSE acc)

server_headers(items) == server_copy_headers(items, <<>>)

(***************************************************************************)
(* BodyCodec, response side.                                               *)
(***************************************************************************)
DefaultContentType == "application/octet-stream"

content_type(resp) == IF resp.hasContentType THEN resp.contentType ELSE DefaultContentType

is_binary(ct) == Contains(ct, "application/octet-stream") \/ Contains(ct, "application/x-git")

\* Variant: only the is_binary test, without the startswith('text') test.
is_base64_encoded_binary_only(ct) == is_binary(ct)

is_base64_encoded(ct) == is_binary(ct) \/ ~StartsWith(ct, "text")

response_body_encoded(ct, content) ==
    IF is_base64_encoded(ct) THEN b64encode(content) ELSE Utf8DecodeReplace(content)

(***************************************************************************)
(* Forwarder: the outbound HTTP client.  A URL without a host is rejected  *)
(* by the client before any network contact (InvalidURL, a                 *)
(* RequestException); otherwise the outcome is the environment's.          *)
(***************************************************************************)
UrlHasHost(url) ==
    LET rest == SubSeq(url, Len("https://") + 1, Len(url))
    IN Len(rest) > 0 /\ Char(rest, 1) \notin {"/", "?"}

Forward(url, rem) ==
    IF UrlHasHost(url) THEN rem
    ELSE [rem EXCEPT !.kind = "error", !.msg = "Invalid URL: No host supplied"]

Call(method, url, headers, hasData, data) ==
    [method |-> method, url |-> url, headers |-> headers, hasData |-> hasData, data |-> data]

(***************************************************************************)
(* Value mode: lambda_handler(event, context).                             *)
(***************************************************************************)
Raised == [raised |-> TRUE, statusCode |-> 0, hasHeaders |-> FALSE, headers |-> <<>>,
           body |-> "", hasFlag |-> FALSE, isBase64Encoded |-> FALSE]

Response(status, hasHeaders, headers, body, hasFlag, flag) ==
    [raised |-> FALSE, statusCode |-> status, hasHeaders |-> hasHeaders, headers |-> headers,
     body |-> body, hasFlag |-> hasFlag, isBase64Encoded |-> flag]

\* 'requestContext' in event and 'http' in event.get('requestContext', {})
\* raises TypeError when requestContext is null.
is_lambda_url_raises(ev) == ev.rc = "null"
is_lambda_url(ev) == ev.rc = "http"

lambda_method(ev) ==
    Upper(IF ev.httpMethod # NONE /\ ev.httpMethod # "" THEN ev.httpMethod
          ELSE IF ev.rc = "http" /\ ev.rcMethod # NONE THEN ev.rcMethod
          ELSE "GET")

lambda_path(ev) ==
    IF ev.path # NONE /\ ev.path # "" THEN ev.path
    ELSE IF ev.rawPath # NONE THEN ev.rawPath
    ELSE ""

lambda_headers(ev) == IF ev.headersShape = "dict" THEN ev.headers ELSE <<>>

\* headers.items() raises AttributeError when event['headers'] is null.
lambda_headers_raises(ev) == ev.headersShape = "null"

lambda_has_body(ev) ==
    lambda_method(ev) \in {"POST", "PUT", "PATCH"} /\ ev.body # NONE /\ ev.body # ""

lambda_body_raises(ev) ==
    lambda_has_body(ev) /\ ev.isBase64Encoded /\ ~b64decode_ok(ev.body)

lambda_body(ev) ==
    IF ~lambda_has_body(ev) THEN <<>>
    ELSE IF ev.isBase64Encoded THEN b64decode(ev.body)
    ELSE Utf8Encode(ev.body)

\* Variant: OPTIONS dispatched to the client like the other verbs.
lambda_forwards_options(method) == method \in {"GET", "POST", "PUT", "DELETE", "OPTIONS"}

lambda_forwards(method) == method \in {"GET", "POST", "PUT", "DELETE"}

\* Variant: the Timeout clause placed after the RequestException clause.
lambda_error_status_shadowed(kind) ==
    CASE kind = "timeout" -> 502
      [] kind = "error" -> 502
      [] OTHER -> 500

lambda_error_status(kind) ==
    CASE kind = "timeout" -> 504
      [] kind = "error" -> 502
      [] OTHER -> 500

lambda_error_body(kind, msg) ==
    CASE kind = "timeout" -> json_dumps(<< <<"error", "Gateway timeout">> >>)
      [] kind = "error" -> json_dumps(<< <<"error", "Failed to proxy request">>, <<"details", msg>> >>)
      [] OTHER -> json_dumps(<< <<"error", "Internal server error">>, <<"details", msg>> >>)

\* The three except blocks.  `bound` tells whether is_lambda_url was
\* assigned before the exception: reading it unassigned raises
\* UnboundLocalError out of the handler.
lambda_except(kind, msg, bound, isUrl) ==
    IF ~bound THEN Raised
    ELSE Response(lambda_error_status(kind), TRUE,
                  << <<"Content-Type", "application/json">> >>
                      \o (IF ~isUrl THEN lambda_cors_headers ELSE <<>>),
                  lambda_error_body(kind, msg), FALSE, FALSE)

lambda_options_response(isUrl) ==
    IF ~isUrl THEN Response(200, TRUE, lambda_preflight_headers, "", FALSE, FALSE)
    ELSE Response(200, FALSE, <<>>, "", FALSE, FALSE)

lambda_405_response(method) ==
    Response(405, TRUE, << <<"Content-Type", "application/json">> >>,
             json_dumps(<< <<"error", "Method " \o method \o " not allowed">> >>), FALSE, FALSE)

lambda_success_response(rem, isUrl) ==
    Response(rem.status, TRUE,
             << <<"Content-Type", content_type(rem)>> >>
                 \o (IF ~isUrl THEN lambda_cors_headers ELSE <<>>),
             response_body_encoded(content_type(rem), rem.content),
             TRUE, is_base64_encoded(content_type(rem)))

lambda_handler(ev, rem) ==
    LET isUrl == is_lambda_url(ev)
        method == lambda_method(ev)
        url == lambda_target_url(lambda_path(ev), ev.queryShape = "dict", ev.query)
        hdrs == proxied_headers(lambda_headers(ev))
        hasData == method \in {"POST", "PUT"}
        data == lambda_body(ev)
        out == Forward(url, rem)
    IN  IF is_lambda_url_raises(ev) THEN
            [response |-> lambda_except("fault", "argument of type NoneType is not iterable", FALSE, FALSE),
             calls |-> <<>>]
        ELSE IF lambda_headers_raises(ev) THEN
            [response |-> lambda_except("fault", "NoneType object has no attribute items", TRUE, isUrl),
             calls |-> <<>>]
        ELSE IF lambda_body_raises(ev) THEN
            [response |-> lambda_except("fault", "Incorrect padding", TRUE, isUrl),
             calls |-> <<>>]
        ELSE IF lambda_forwards(method) THEN
            [response |-> IF out.kind = "ok" THEN lambda_success_response(out, isUrl)
                          ELSE lambda_except(out.kind, out.msg, TRUE, isUrl),
             calls |-> << Call(method, url, hdrs, hasData, IF hasData THEN data ELSE <<>>) >>]
        ELSE IF method = "OPTIONS" THEN
            [response |-> lambda_options_response(isUrl), calls |-> <<>>]
        ELSE
            [response |-> lambda_405_response(method), calls |-> <<>>]

(***************************************************************************)
(* Streaming mode: GitProxyHandler.  headers_buffer is the handler's       *)
(* pending status/header lines (send_response and send_header append to    *)
(* it, end_headers flushes it to wfile and clears it only when the write   *)
(* succeeded); wfile is what reached the connection.                       *)
(***************************************************************************)
StatusLine(code) == [t |-> "status", code |-> code, name |-> "", value |-> "", bytes |-> <<>>]
HeaderLine(name, value) == [t |-> "header", code |-> 0, name |-> name, value |-> value, bytes |-> <<>>]
EndOfHeaders == [t |-> "end", code |-> 0, name |-> "", value |-> "", bytes |-> <<>>]
BodyBlock(b) == [t |-> "body", code |-> 0, name |-> "", value |-> "", bytes |-> b]

RECURSIVE HeaderLines(_)
HeaderLines(d) == IF Len(d) = 0 THEN <<>> ELSE <<HeaderLine(d[1][1], d[1][2])>> \o HeaderLines(Tail(d))

\* self.headers.get(name, default): case-insensitive, first match.
ServerGetHeader(items, name, default) ==
    IF \E i \in 1..Len(items) : Lower(items[i][1]) = Lower(name)
    THEN items[CHOOSE i \in 1..Len(items) :
                /\ Lower(items[i][1]) = Lower(name)
                /\ \A j \in 1..(i - 1) : Lower(items[j][1]) # Lower(name)][2]
    ELSE default

\* int(self.headers.get('Content-Length', 0)) raises ValueError on a non-number.
server_content_length_raises(h) == ~IsDecimal(ServerGetHeader(h.headers, "Content-Length", "0"))
server_content_length(h) == StrToInt(ServerGetHeader(h.headers, "Content-Length", "0"))

\* self.rfile.read(content_length) if content_length > 0 else None
server_body(h) ==
    LET n == server_content_length(h)
    IN IF n > 0 THEN SubSeq(h.rfile, 1, IF n < Len(h.rfile) THEN n ELSE Len(h.rfile)) ELSE <<>>

\* The Content-Length value the success path sends.
server_content_length_header(rem) ==
    IF rem.hasContentLength /\ rem.contentLength # "" THEN rem.contentLength
    ELSE IntToStr(Len(rem.content))

server_error_body(msg) ==
    Utf8Encode(json_dumps(<< <<"error", "Failed to proxy request">>, <<"details", msg>> >>))

\* do_OPTIONS: no try block, a failed flush escapes the handler.
do_OPTIONS ==
    /\ mode = "streaming" /\ pc = "start" /\ handler.command = "OPTIONS"
    /\ LET buf == headers_buffer \o <<StatusLine(204)>> \o HeaderLines(_set_cors_headers)
                      \o <<EndOfHeaders>>
       IN \E ok \in BOOLEAN :
            IF ok THEN /\ wfile' = wfile \o buf
                       /\ headers_buffer' = <<>>
                       /\ pc' = "done"
                       /\ error' = error
            ELSE /\ wfile' = wfile
                 /\ headers_buffer' = buf
                 /\ pc' = "raised"
                 /\ error' = "Broken pipe"
    /\ UNCHANGED <<mode, event, handler, remote, calls, result>>

\* _handle_request up to and including the requests.get / requests.post call.
handle_request_forward ==
    /\ mode = "streaming" /\ pc = "start" /\ handler.command \in {"GET", "POST"}
    /\ IF server_content_length_raises(handler) THEN
            /\ pc' = "error"
            /\ error' = "invalid literal for int() with base 10"
            /\ calls' = calls
       ELSE LET url == server_target_url(handler.path)
                out == Forward(url, remote)
                post == handler.command = "POST"
            IN /\ calls' = Append(calls, Call(handler.command, url, server_headers(handler.headers),
                                               post, IF post THEN server_body(handler) ELSE <<>>))
               /\ IF out.kind = "ok" THEN pc' = "respond" /\ error' = error
                  ELSE pc' = "error" /\ error' = out.msg
    /\ UNCHANGED <<mode, event, handler, remote, result, headers_buffer, wfile>>

\* send_response .. end_headers of the success path.
handle_request_send_headers ==
    /\ mode = "streaming" /\ pc = "respond"
    /\ LET buf == headers_buffer \o <<StatusLine(remote.status)>> \o HeaderLines(_set_cors_headers)
                      \o <<HeaderLine("Content-Type", content_type(remote)),
                           HeaderLine("Content-Length", server_content_length_header(remote)),
                           EndOfHeaders>>
       IN \E ok \in BOOLEAN :
            IF ok THEN /\ wfile' = wfile \o buf
                       /\ headers_buffer' = <<>>
                       /\ pc' = "body"
                       /\ error' = error
            ELSE /\ wfile' = wfile
                 /\ headers_buffer' = buf
                 /\ pc' = "error"
                 /\ error' = "Broken pipe"
    /\ UNCHANGED <<mode, event, handler, remote, calls, result>>

\* self.wfile.write(response_body) of the success path.
handle_request_write_body ==
    /\ mode = "streaming" /\ pc = "body"
    /\ \E ok \in BOOLEAN :
            IF ok THEN /\ wfile' = Append(wfile, BodyBlock(remote.content))
                       /\ pc' = "done"
                       /\ error' = error
            ELSE /\ wfile' = wfile
                 /\ pc' = "error"
                 /\ error' = "Connection reset by peer"
    /\ UNCHANGED <<mode, event, handler, remote, calls, result, headers_buffer>>

\* _send_error_response(500, str(error)): send_response .. end_headers.
send_error_response_headers ==
    /\ mode = "streaming" /\ pc = "error"
    /\ LET buf == headers_buffer \o <<StatusLine(500)>> \o HeaderLines(_set_cors_headers)
                      \o <<HeaderLine("Content-Type", "application/json"),
                           HeaderLine("Content-Length", IntToStr(Len(server_error_body(error)))),
                           EndOfHeaders>>
       IN \E ok \in BOOLEAN :
            IF ok THEN /\ wfile' = wfile \o buf
                       /\ headers_buffer' = <<>>
                       /\ pc' = "error_body"
            ELSE /\ wfile' = wfile
                 /\ headers_buffer' = buf
                 /\ pc' = "raised"
    /\ UNCHANGED <<mode, event, handler, remote, calls, result, error>>

\* _send_error_response: self.wfile.write(response_body).
send_error_response_body ==
    /\ mode = "streaming" /\ pc = "error_body"
    /\ \E ok \in BOOLEAN :
            IF ok THEN /\ wfile' = Append(wfile, BodyBlock(server_error_body(error)))
                       /\ pc' = "done"
            ELSE /\ wfile' = wfile
                 /\ pc' = "raised"
    /\ UNCHANGED <<mode, event, handler, remote, calls, result, error, headers_buffer>>

\* Value mode: one invocation of lambda_handler.
lambda_invoke ==
    /\ mode = "value" /\ pc = "start"
    /\ LET r == lambda_handler(event, remote)
       IN /\ result' = r.response
          /\ calls' = r.calls
    /\ pc' = "done"
    /\ UNCHANGED <<mode, event, handler, remote, error, headers_buffer, wfile>>

(***************************************************************************)
(* Inputs: the requests and the remote behaviours of the checked instance. *)
(***************************************************************************)
RECURSIVE StringsUpTo(_, _)
StringsUpTo(alphabet, n) ==
    IF n = 0 THEN {""}
    ELSE LET S == StringsUpTo(alphabet, n - 1)
         IN S \cup {s \o c : s \in S, c \in alphabet}

RECURSIVE SeqsUpTo(_, _)
SeqsUpTo(S, n) ==
    IF n = 0 THEN {<<>>}
    ELSE LET T == SeqsUpTo(S, n - 1)
         IN T \cup {Append(t, x) : t \in T, x \in S}

\* event['path'] carries no query string; self.path does.
LambdaSuffixes == StringsUpTo({"/", "h"}, MaxPathLen)
LambdaPaths == LambdaSuffixes \cup {lambda_prefix \o s : s \in LambdaSuffixes}
ServerSuffixes == StringsUpTo({"/", "h", "?"}, MaxPathLen)
ServerPaths == ServerSuffixes \cup {lambda_prefix \o s : s \in ServerSuffixes}

TypicalPath == "/api/git-proxy/github.com/o/r.git/info/refs"
TypicalQuery == << <<"service", "git-upload-pack">> >>
TypicalHeaders == << <<"Host", "localhost:3001">>, <<"Authorization", "token abc">> >>

HeaderItems ==
    { <<"Host", "localhost:3001">>, <<"host", "localhost:3001">>, <<"HOST", "proxy">>,
      <<"Connection", "keep-alive">>, <<"CONNECTION", "close">>,
      <<"Content-Length", "2">>, <<"content-length", "x">>,
      <<"Authorization", "token abc">>, <<"Accept", "*/*">>, <<"Accept", "text/plain">> }

HeaderLists == SeqsUpTo(HeaderItems, MaxHeaders)

\* A JSON object has each key once.
HeaderDicts == {h \in HeaderLists : \A i, j \in 1..Len(h) : h[i][1] = h[j][1] => i = j}

LambdaMethods == {"GET", "POST", "PUT", "DELETE", "OPTIONS", "PATCH", "options"}
ServerCommands == {"GET", "POST", "OPTIONS"}

ContentTypes ==
    {"text/plain", "text/html; charset=utf-8", "text/x; application/octet-stream",
     "application/octet-stream", "application/x-git-upload-pack-result",
     "application/json", "image/png", ""}

Bodies == SeqsUpTo({65, 104, 255}, MaxBody)

RemoteOk(status, hasCT, ct, hasCL, cl, content) ==
    [kind |-> "ok", status |-> status, hasContentType |-> hasCT, contentType |-> ct,
     hasContentLength |-> hasCL, contentLength |-> cl, content |-> content, msg |-> ""]

RemoteFailure(kind, msg) ==
    [kind |-> kind, status |-> 0, hasContentType |-> FALSE, contentType |-> "",
     hasContentLength |-> FALSE, contentLength |-> "", content |-> <<>>, msg |-> msg]

RemoteFailures ==
    {RemoteFailure("timeout", "Read timed out"), RemoteFailure("error", "Connection refused")}

\* The remote Content-Length is the length on the wire: the length of the
\* decoded content, or (Content-Encoding: gzip) a different one.
RemoteResponses ==
    {RemoteOk(st, TRUE, ct, TRUE, IntToStr(Len(b) + extra), b) :
        st \in {200, 404}, ct \in ContentTypes, b \in Bodies, extra \in {0, 20}}
    \cup {RemoteOk(st, hasCT, "", FALSE, "", b) :
        st \in {200, 404}, hasCT \in BOOLEAN, b \in Bodies}

TypicalRemotes ==
    RemoteFailures \cup
    {RemoteOk(200, TRUE, "text/plain", FALSE, "", <<104>>),
     RemoteOk(200, TRUE, "application/x-git-upload-pack-result", TRUE, "21", <<255>>)}

Event(rc, httpMethod, rcMethod, path, rawPath, queryShape, query, headersShape, headers, body, b64) ==
    [rc |-> rc, httpMethod |-> httpMethod, rcMethod |-> rcMethod, path |-> path,
     rawPath |-> rawPath, queryShape |-> queryShape, query |-> query,
     headersShape |-> headersShape, headers |-> headers, body |-> body, isBase64Encoded |-> b64]

\* API Gateway proxy events carry httpMethod and path; Function URL events
\* carry requestContext.http.method and rawPath.
ShapedEvent(rc, method, path, queryShape, query, headersShape, headers, body, b64) ==
    IF rc = "http"
    THEN Event(rc, NONE, method, NONE, path, queryShape, query, headersShape, headers, body, b64)
    ELSE Event(rc, method, NONE, path, NONE, queryShape, query, headersShape, headers, body, b64)

NoEvent == Event("absent", NONE, NONE, NONE, NONE, "absent", <<>>, "absent", <<>>, NONE, FALSE)

Handler(command, path, headers, rfile) ==
    [command |-> command, path |-> path, headers |-> headers, rfile |-> rfile]

NoHandler == Handler("", "", <<>>, <<>>)

RouteEvents ==
    {ShapedEvent(rc, m, p, qs, TypicalQuery, hs, TypicalHeaders, NONE, FALSE) :
        rc \in {"absent", "null", "nohttp", "http"}, m \in LambdaMethods, p \in LambdaPaths,
        qs \in {"absent", "dict"}, hs \in {"dict", "null"}}

HeaderEvents ==
    {ShapedEvent(rc, m, TypicalPath, "dict", TypicalQuery, hs, h, NONE, FALSE) :
        rc \in {"absent", "http"}, m \in {"GET", "POST"}, hs \in {"absent", "dict"}, h \in HeaderDicts}

BodyEvents ==
    {ShapedEvent(rc, m, TypicalPath, "dict", <<>>, "dict", TypicalHeaders, b, b64) :
        rc \in {"absent", "http"}, m \in {"GET", "POST", "PUT", "PATCH", "OPTIONS"},
        b \in {NONE, "", "aGk=", "/w==", "hi"}, b64 \in BOOLEAN}

CodecEvents ==
    {ShapedEvent(rc, m, TypicalPath, "absent", <<>>, "dict", TypicalHeaders, NONE, FALSE) :
        rc \in {"absent", "http"}, m \in {"GET", "POST"}}

RouteHandlers ==
    {Handler(c, p, TypicalHeaders, <<>>) : c \in ServerCommands, p \in ServerPaths}

HeaderHandlers ==
    {Handler(c, TypicalPath, h, <<104, 105>>) : c \in ServerCommands, h \in HeaderLists}

CodecHandlers ==
    {Handler(c, TypicalPath \o "?service=git-upload-pack", TypicalHeaders, <<>>) : c \in {"GET", "POST"}}

InitValue ==
    /\ mode = "value"
    /\ handler = NoHandler
    /\ \/ event \in RouteEvents /\ remote \in TypicalRemotes
       \/ event \in HeaderEvents \cup BodyEvents /\ remote \in TypicalRemotes
       \/ event \in CodecEvents /\ remote \in RemoteResponses \cup RemoteFailures

InitStreaming ==
    /\ mode = "streaming"
    /\ event = NoEvent
    /\ \/ handler \in RouteHandlers \cup HeaderHandlers /\ remote \in TypicalRemotes
       \/ handler \in CodecHandlers /\ remote \in RemoteResponses \cup RemoteFailures

Init ==
    /\ InitValue \/ InitStreaming
    /\ pc = "start"
    /\ calls = <<>>
    /\ result = Raised
    /\ error = ""
    /\ headers_buffer = <<>>
    /\ wfile = <<>>

Next ==
    \/ lambda_invoke
    \/ do_OPTIONS
    \/ handle_request_forward
    \/ handle_request_send_headers
    \/ handle_request_write_body
    \/ send_error_response_headers
    \/ send_error_response_body

Spec == Init /\ [][Next]_vars

(***************************************************************************)
(* Properties.                                                             *)
(***************************************************************************)
Done == pc = "done"

\* The outcome of the (single) outbound call of this request.
Forwarded == Len(calls) > 0
Outcome == Forward(calls[1].url, remote)

HasCorsHeader(hdrs) == \E i \in 1..Len(hdrs) : StartsWith(hdrs[i][1], "Access-Control-")

HasFullCors(hdrs) ==
    /\ DictGet(hdrs, "Access-Control-Allow-Origin", NONE) = "*"
    /\ HasKey(hdrs, "Access-Control-Allow-Methods")
    /\ HasKey(hdrs, "Access-Control-Allow-Headers")

StatusLines == {i \in 1..Len(wfile) : wfile[i].t = "status"}
BodyBlocks == {i \in 1..Len(wfile) : wfile[i].t = "body"}

\* The event is a request as API Gateway or a Function URL delivers it:
\* requestContext is not null and headers is a mapping.
WellFormedEvent == event.rc # "null" /\ event.headersShape # "null"

\* C1: every invocation of lambda_handler returns a record with a status
\* code, headers and a body; no exception leaves the handler.
C1_AlwaysCompleteResponse ==
    (mode = "value" /\ Done) => (~result.raised /\ result.hasHeaders /\ result.statusCode > 0)

\* C2: every value-mode response carries the CORS headers iff the core owns
\* CORS (the invocation is not a Function URL one); otherwise it carries no
\* Access-Control-* header.
C2_CorsIffCoreOwns ==
    (mode = "value" /\ Done /\ ~result.raised) =>
        IF is_lambda_url(event) THEN ~HasCorsHeader(result.headers)
        ELSE HasFullCors(result.headers)

\* C3: in both modes a path with redundant leading slashes after the prefix
\* resolves to https:// followed by the remainder without its leading
\* slashes, never to https:///...
C3_NoExtraLeadingSlash ==
    LET p == IF mode = "value" THEN lambda_path(event) ELSE path_part(handler.path)
        rest == SubSeq(p, Len(server_prefix) + 1, Len(p))
    IN (Forwarded /\ StartsWith(p, server_prefix \o "/")) =>
          /\ ~StartsWith(calls[1].url, "https:///")
          /\ StartsWith(calls[1].url, "https://" \o LStripSlash(rest))
          /\ ~Contains(SubSeq(calls[1].url, 2, Len(calls[1].url)), "https://")

\* C4: a failed outbound call yields 504 (timeout) or 502 (other transport
\* failure) in value mode and 500 in streaming mode, always with a JSON
\* object body that has the key error.
C4_FailureStatus ==
    (Forwarded /\ Outcome.kind # "ok") =>
        IF mode = "value" THEN
            Done => /\ ~result.raised
                    /\ result.statusCode = (IF Outcome.kind = "timeout" THEN 504 ELSE 502)
                    /\ JsonObjectHasKey(result.body, "error")
        ELSE
            /\ \A i \in StatusLines : wfile[i].code = 500
            /\ \A i \in BodyBlocks : JsonObjectHasKey(Utf8DecodeReplace(wfile[i].bytes), "error")
            /\ Done => (StatusLines # {} /\ BodyBlocks # {})

C4_Witness ==
    /\ mode = "value" /\ Done /\ Forwarded /\ Outcome.kind = "timeout"
    /\ result.statusCode = 504
    /\ result.body = "{\"error\": \"Gateway timeout\"}"

LastValue(items, name) ==
    items[CHOOSE i \in 1..Len(items) :
            items[i][1] = name /\ \A j \in (i + 1)..Len(items) : items[j][1] # name][2]

InboundHeaders == IF mode = "value" THEN lambda_headers(event) ELSE handler.headers

Excluded == IF mode = "value" THEN {"host", "connection", "content-length"} ELSE {"host", "connection"}

\* C6: the forwarded headers never contain host or connection in any letter
\* case; content-length is removed in value mode and kept in streaming mode;
\* every other header is forwarded with name and value unchanged; filtering
\* the forwarded headers again returns them unchanged.
C6_HeaderFilter ==
    Forwarded =>
        LET fwd == calls[1].headers
        IN /\ \A i \in 1..Len(fwd) : Lower(fwd[i][1]) \notin {"host", "connection"}
           /\ mode = "value" => \A i \in 1..Len(fwd) : Lower(fwd[i][1]) # "content-length"
           /\ \A i \in 1..Len(InboundHeaders) :
                Lower(InboundHeaders[i][1]) \notin Excluded =>
                    /\ HasKey(fwd, InboundHeaders[i][1])
                    /\ DictGet(fwd, InboundHeaders[i][1], NONE)
                            = LastValue(InboundHeaders, InboundHeaders[i][1])
           /\ Keys(fwd) \subseteq Keys(InboundHeaders)
           /\ (IF mode = "value" THEN proxied_headers(fwd) ELSE server_headers(fwd)) = fwd

C6_Witness ==
    /\ mode = "value" /\ Forwarded
    /\ InboundHeaders = << <<"HOST", "proxy">>, <<"Authorization", "token abc">> >>
    /\ calls[1].headers = << <<"Authorization", "token abc">> >>

\* C7: on a successful forward in value mode isBase64Encoded is true exactly
\* when the remote content type contains application/octet-stream or
\* application/x-git or does not start with text; then the body
\* base64-decodes to the remote bytes; the status is the remote status.
C7_BinaryClassification ==
    (mode = "value" /\ Done /\ Forwarded /\ Outcome.kind = "ok") =>
        LET ct == IF remote.hasContentType THEN remote.contentType ELSE "application/octet-stream"
        IN /\ ~result.raised /\ result.hasFlag
           /\ result.isBase64Encoded <=>
                \/ Contains(ct, "application/octet-stream")
                \/ Contains(ct, "application/x-git")
                \/ ~StartsWith(ct, "text")
           /\ result.isBase64Encoded =>
                (b64decode_ok(result.body) /\ b64decode(result.body) = remote.content)
           /\ result.statusCode = remote.status

C7_Witness ==
    /\ mode = "value" /\ Done /\ Forwarded /\ Outcome.kind = "ok"
    /\ remote.contentType = "application/json"
    /\ remote.content = <<255, 104>>
    /\ result.isBase64Encoded /\ result.body = "/2g="

\* C8: with an empty remainder no request to https:// is attempted and the
\* caller gets a locally generated error response.
C8_EmptyRemainderFailsFast ==
    /\ \A i \in 1..Len(calls) :
            calls[i].url # "https://" /\ ~StartsWith(calls[i].url, "https://?")
    /\ (mode = "value" /\ Done /\ WellFormedEvent /\ lambda_forwards(lambda_method(event))
            /\ lambda_target_path(lambda_path(event)) = "") => result.statusCode >= 400

\* C9: for a GET or POST in streaming mode the connection receives exactly
\* one status line, then the headers, then the body; never a second status
\* line or header block.
C9_SingleResponse ==
    (mode = "streaming" /\ handler.command \in {"GET", "POST"}) =>
        /\ Cardinality(StatusLines) <= 1
        /\ Cardinality({i \in 1..Len(wfile) : wfile[i].t = "end"}) <= 1
        /\ Done => /\ Len(wfile) >= 3
                   /\ wfile[1].t = "status"
                   /\ wfile[Len(wfile)].t = "body"
                   /\ wfile[Len(wfile) - 1].t = "end"

\* C10: in streaming mode the Content-Length sent equals the number of body
\* bytes written after it.
C10_ContentLengthMatchesBody ==
    mode = "streaming" =>
        \A i \in BodyBlocks :
            \E j \in 1..(i - 1) :
                /\ wfile[j].t = "header" /\ wfile[j].name = "Content-Length"
                /\ \A k \in (j + 1)..(i - 1) : wfile[k].name # "Content-Length"
                /\ IsDecimal(wfile[j].value)
                /\ StrToInt(wfile[j].value) = Len(wfile[i].bytes)

====
